---- MODULE Spec2Model ----
(***************************************************************************)
(* A model of the ImmuDB reader (Operations/Ops.py) and of the dashboard's *)
(* statistics helper (app.py).                                             *)
(*                                                                         *)
(* Byte strings are sequences of 0..255.  Python str values are sequences  *)
(* of code points.  A Python dict is a sequence of <<key, value>> pairs    *)
(* with distinct keys, in insertion order.  An optional value is the empty *)
(* sequence (None) or a one-element sequence.                              *)
(***************************************************************************)
EXTENDS Integers, Sequences, FiniteSets, TLC

VARIABLES db, reader, last, transactions, stats, connected

vars == <<db, reader, last, transactions, stats, connected>>

\* ------------------------------------------------------------------ bounds

\* The largest number of entries a modelled store holds.
MaxEntries == 2

\* The largest number of parts (see UrlParts) an endpoint string is made of.
MaxUrlParts == 5

\* The largest number of entries of a TransactionSet handed to the aggregator.
MaxTxns == 3

\* ------------------------------------------------------- Python primitives

None == <<>>

Some(x) == <<x>>

\* U+FFFD, what errors='replace' puts in place of an undecodable byte run.
REPLACEMENT == 65533

IsCont(b) == b >= 128 /\ b <= 191

Tail_n(s, n) == SubSeq(s, n + 1, Len(s))

\* bytes.decode('utf-8', errors='replace'): well-formed sequences of one to
\* four bytes give their code point, every maximal ill-formed run gives one
\* U+FFFD.
RECURSIVE decode_utf8_replace(_)
decode_utf8_replace(bs) ==
    IF bs = <<>> THEN <<>>
    ELSE LET b0 == bs[1]
             n == Len(bs)
             lo2 == IF b0 = 224 THEN 160 ELSE IF b0 = 240 THEN 144 ELSE 128
             hi2 == IF b0 = 237 THEN 159 ELSE IF b0 = 244 THEN 143 ELSE 191
             ok2 == n >= 2 /\ bs[2] >= lo2 /\ bs[2] <= hi2
             ok3 == ok2 /\ n >= 3 /\ IsCont(bs[3])
             ok4 == ok3 /\ n >= 4 /\ IsCont(bs[4])
         IN  IF b0 < 128 THEN <<b0>> \o decode_utf8_replace(Tail_n(bs, 1))
             ELSE IF b0 >= 194 /\ b0 <= 223 THEN
                 IF ok2
                 THEN <<(b0 - 192) * 64 + (bs[2] - 128)>>
                          \o decode_utf8_replace(Tail_n(bs, 2))
                 ELSE <<REPLACEMENT>> \o decode_utf8_replace(Tail_n(bs, 1))
             ELSE IF b0 >= 224 /\ b0 <= 239 THEN
                 IF ok3
                 THEN <<(b0 - 224) * 4096 + (bs[2] - 128) * 64 + (bs[3] - 128)>>
                          \o decode_utf8_replace(Tail_n(bs, 3))
                 ELSE IF ok2
                 THEN <<REPLACEMENT>> \o decode_utf8_replace(Tail_n(bs, 2))
                 ELSE <<REPLACEMENT>> \o decode_utf8_replace(Tail_n(bs, 1))
             ELSE IF b0 >= 240 /\ b0 <= 244 THEN
                 IF ok4
                 THEN <<(b0 - 240) * 262144 + (bs[2] - 128) * 4096
                            + (bs[3] - 128) * 64 + (bs[4] - 128)>>
                          \o decode_utf8_replace(Tail_n(bs, 4))
                 ELSE IF ok3
                 THEN <<REPLACEMENT>> \o decode_utf8_replace(Tail_n(bs, 3))
                 ELSE IF ok2
                 THEN <<REPLACEMENT>> \o decode_utf8_replace(Tail_n(bs, 2))
                 ELSE <<REPLACEMENT>> \o decode_utf8_replace(Tail_n(bs, 1))
             ELSE <<REPLACEMENT>> \o decode_utf8_replace(Tail_n(bs, 1))

\* str.encode('utf-8') of one code point (no surrogates are modelled).
encode_char(c) ==
    IF c < 128 THEN <<c>>
    ELSE IF c < 2048 THEN <<192 + (c \div 64), 128 + (c % 64)>>
    ELSE IF c < 65536
    THEN <<224 + (c \div 4096), 128 + ((c \div 64) % 64), 128 + (c % 64)>>
    ELSE <<240 + (c \div 262144), 128 + ((c \div 4096) % 64),
           128 + ((c \div 64) % 64), 128 + (c % 64)>>

\* str.encode('utf-8').
RECURSIVE encode_utf8(_)
encode_utf8(s) ==
    IF s = <<>> THEN <<>> ELSE encode_char(s[1]) \o encode_utf8(Tail(s))

\* str.startswith / bytes.startswith.
startswith(s, p) == Len(p) <= Len(s) /\ SubSeq(s, 1, Len(p)) = p

\* bytes.endswith.
endswith(s, x) ==
    Len(x) <= Len(s) /\ SubSeq(s, Len(s) - Len(x) + 1, Len(s)) = x

\* The base64 alphabet: the code point of sextet i.
b64char(i) ==
    IF i < 26 THEN 65 + i
    ELSE IF i < 52 THEN 97 + (i - 26)
    ELSE IF i < 62 THEN 48 + (i - 52)
    ELSE IF i = 62 THEN 43 ELSE 47

\* base64.b64encode(value_bytes).decode('utf-8').
RECURSIVE b64encode(_)
b64encode(bs) ==
    IF bs = <<>> THEN <<>>
    ELSE LET n == Len(bs)
             b1 == bs[1]
             b2 == IF n >= 2 THEN bs[2] ELSE 0
             b3 == IF n >= 3 THEN bs[3] ELSE 0
             c1 == b64char(b1 \div 4)
             c2 == b64char((b1 % 4) * 16 + (b2 \div 16))
             c3 == IF n >= 2 THEN b64char((b2 % 16) * 4 + (b3 \div 64)) ELSE 61
             c4 == IF n >= 3 THEN b64char(b3 % 64) ELSE 61
         IN  <<c1, c2, c3, c4>> \o b64encode(Tail_n(bs, 3))

\* bytes.hex(): two lowercase hexadecimal digits per byte.
hexdigit(d) == IF d < 10 THEN 48 + d ELSE 97 + (d - 10)

RECURSIVE hex(_)
hex(bs) ==
    IF bs = <<>> THEN <<>>
    ELSE <<hexdigit(bs[1] \div 16), hexdigit(bs[1] % 16)>> \o hex(Tail(bs))

\* ------------------------------------------------------------------- dicts

DictKeys(d) == {d[i][1] : i \in 1..Len(d)}

DictHas(d, k) == \E i \in 1..Len(d) : d[i][1] = k

DictGet(d, k) == d[CHOOSE i \in 1..Len(d) : d[i][1] = k][2]

\* result[key_str] = value_str: a new key is appended, an existing key keeps
\* its place and takes the new value.
DictSet(d, k, v) ==
    IF DictHas(d, k)
    THEN [i \in 1..Len(d) |-> IF d[i][1] = k THEN <<k, v>> ELSE d[i]]
    ELSE Append(d, <<k, v>>)

\* ------------------------------------------------------- the remote store

\* Raw keys: "a", the UTF-8 encoding of U+FFFD, and the byte FF, which is no
\* UTF-8 at all.
KeyUniverse == {<<97>>, <<239, 191, 189>>, <<255>>}

\* Raw values: the two bytes of U+00E9, and the byte FF (no UTF-8).
ValueUniverse == {<<195, 169>>, <<255>>}

\* The shapes in which the client's scan hands back an entry: a 2-tuple, an
\* object with key and value attributes, a bare bytes key, anything else.
Shapes == {"tuple", "object", "bytes", "other"}

\* What client.get answers with: an object with .value, one with .payload,
\* or one with neither.
RespKinds == {"value", "payload", "neither"}

\* Byte-wise lexicographic order of raw keys.
RECURSIVE bytes_lt(_, _)
bytes_lt(a, b) ==
    IF b = <<>> THEN FALSE
    ELSE IF a = <<>> THEN TRUE
    ELSE IF a[1] # b[1] THEN a[1] < b[1]
    ELSE bytes_lt(Tail(a), Tail(b))

RECURSIVE SortedKeys(_)
SortedKeys(K) ==
    IF K = {} THEN <<>>
    ELSE LET m == CHOOSE k \in K : \A o \in K \ {k} : bytes_lt(k, o)
         IN  <<m>> \o SortedKeys(K \ {m})

\* A store: its entries in ascending key order, each with its raw key, its
\* value and the shape the scan gives it, and the kind of response the point
\* lookup gives (which shows only when some entry comes as a bare key).
Stores ==
    LET KeySets == {K \in SUBSET KeyUniverse : Cardinality(K) <= MaxEntries}
        Contents(ks) ==
            {[i \in 1..Len(ks) |->
                 [key |-> ks[i], value |-> f[i].value, shape |-> f[i].shape]]
                : f \in [1..Len(ks) -> [value : ValueUniverse, shape : Shapes]]}
        HasBare(c) == \E i \in 1..Len(c) : c[i].shape = "bytes"
    IN  {[entries |-> c, resp |-> k] :
            c \in UNION {Contents(SortedKeys(K)) : K \in KeySets},
            k \in RespKinds}
        \ {[entries |-> c, resp |-> k] :
            c \in {x \in UNION {Contents(SortedKeys(K)) : K \in KeySets}
                      : ~HasBare(x)},
            k \in RespKinds \ {"value"}}

\* client.scan(key=b'', prefix=pfx, limit=0, desc=False) on a store that
\* answers: the entries in ascending key order; a store that honours the
\* restriction gives those whose key starts with pfx, one that does not gives
\* them all.
scan(d, pfx, honours) ==
    LET Keep(e) == honours => startswith(e.key, pfx)
    IN  SelectSeq(d.entries, Keep)

\* client.get(key_bytes) on a store that answers.
client_get(d, k) ==
    LET e == d.entries[CHOOSE i \in 1..Len(d.entries) : d.entries[i].key = k]
    IN  [kind |-> d.resp, data |-> e.value]

\* What the store does during one call: whether login and useDatabase
\* succeed, whether scan or currentState raises, whether the scan honours the
\* prefix, and the key (if any) whose point lookup raises.
CalmEnv ==
    [loginOk |-> TRUE, useDbOk |-> TRUE, scanRaises |-> FALSE,
     honours |-> TRUE, getRaises |-> None, stateRaises |-> FALSE]

\* store.currentState(): the transaction id and the root hash.
currentState(d) ==
    [txId |-> Len(d.entries), txHash |-> <<Len(d.entries), 171>>]

\* -------------------------------------------------------------- the reader

\* The characters connect looks for: "://" and ":".
SchemeSep == <<58, 47, 47>>

PortSep == <<58>>

\* The port connect uses when the endpoint names none.
DefaultPort == 3322

\* sep in s.
contains(s, sep) ==
    \E i \in 1..Len(s) : startswith(Tail_n(s, i - 1), sep)

\* s.split(sep): the parts of s between the occurrences of sep, left to right.
RECURSIVE split(_, _)
split(s, sep) ==
    IF contains(s, sep)
    THEN LET i == CHOOSE j \in 1..Len(s) :
                      /\ startswith(Tail_n(s, j - 1), sep)
                      /\ \A k \in 1..(j - 1) : ~startswith(Tail_n(s, k - 1), sep)
         IN  <<SubSeq(s, 1, i - 1)>> \o split(Tail_n(s, i + Len(sep) - 1), sep)
    ELSE <<s>>

\* int(port) raises ValueError unless port is a run of decimal digits (the
\* modelled endpoints hold no sign, blank or underscore).
int_raises(s) == s = <<>> \/ \E i \in 1..Len(s) : s[i] < 48 \/ s[i] > 57

RECURSIVE int(_)
int(s) ==
    IF s = <<>> THEN 0
    ELSE int(SubSeq(s, 1, Len(s) - 1)) * 10 + (s[Len(s)] - 48)

\* ImmuDBReader(url, db_name).
ImmuDBReader(url, db_name) ==
    [url |-> url, db_name |-> db_name, client |-> None]

\* A client can scan and read the state once it is logged in and has a
\* database selected.
ClientReady(r) ==
    /\ r.client # None
    /\ r.client[1].loggedIn
    /\ r.client[1].database # None

\* connect taking the part before "://" (index 0) for the rest of the
\* endpoint, and so the scheme for the host.
connect_keeps_scheme(r, env) ==
    LET url1 == IF contains(r.url, SchemeSep)
                THEN split(r.url, SchemeSep)[1]
                ELSE r.url
        r1 == [r EXCEPT !.url = url1]
        hasPort == contains(url1, PortSep)
        parts == split(url1, PortSep)
        host == IF hasPort THEN parts[1] ELSE url1
        port == IF hasPort THEN int(parts[2]) ELSE DefaultPort
        c0 == [host |-> host, port |-> port,
               loggedIn |-> FALSE, database |-> None]
        c1 == [c0 EXCEPT !.loggedIn = TRUE]
        c2 == [c1 EXCEPT !.database = Some(r.db_name)]
    IN  IF hasPort /\ (Len(parts) # 2 \/ int_raises(parts[2]))
        THEN [reader |-> r1, raised |-> TRUE]
        ELSE IF ~env.loginOk
        THEN [reader |-> [r1 EXCEPT !.client = Some(c0)], raised |-> TRUE]
        ELSE IF ~env.useDbOk
        THEN [reader |-> [r1 EXCEPT !.client = Some(c1)], raised |-> TRUE]
        ELSE [reader |-> [r1 EXCEPT !.client = Some(c2)], raised |-> FALSE]

\* ImmuDBReader.connect: the reader afterwards, and whether the call raised.
connect(r, env) ==
    LET url1 == IF contains(r.url, SchemeSep)
                THEN split(r.url, SchemeSep)[2]
                ELSE r.url
        r1 == [r EXCEPT !.url = url1]
        hasPort == contains(url1, PortSep)
        parts == split(url1, PortSep)
        host == IF hasPort THEN parts[1] ELSE url1
        port == IF hasPort THEN int(parts[2]) ELSE DefaultPort
        c0 == [host |-> host, port |-> port,
               loggedIn |-> FALSE, database |-> None]
        c1 == [c0 EXCEPT !.loggedIn = TRUE]
        c2 == [c1 EXCEPT !.database = Some(r.db_name)]
    IN  IF hasPort /\ (Len(parts) # 2 \/ int_raises(parts[2]))
        THEN [reader |-> r1, raised |-> TRUE]
        ELSE IF ~env.loginOk
        THEN [reader |-> [r1 EXCEPT !.client = Some(c0)], raised |-> TRUE]
        ELSE IF ~env.useDbOk
        THEN [reader |-> [r1 EXCEPT !.client = Some(c1)], raised |-> TRUE]
        ELSE [reader |-> [r1 EXCEPT !.client = Some(c2)], raised |-> FALSE]

\* "if not self.client: self.connect()", the first statement of every read.
ensure_client(r, env) ==
    IF r.client = None THEN connect(r, env)
    ELSE [reader |-> r, raised |-> FALSE]

\* The scan call raises when the store fails it or the client may not scan.
scan_raises(r, env) == env.scanRaises \/ ~ClientReady(r)

\* value_bytes.decode('utf-8', errors='replace') raises for no byte string:
\* errors='replace' substitutes U+FFFD instead.
decode_raises(value_bytes) == FALSE

\* The value's text: the decoded bytes, and base64 when decoding raises.
decode_value(value_bytes) ==
    IF decode_raises(value_bytes)
    THEN b64encode(value_bytes)
    ELSE decode_utf8_replace(value_bytes)

\* One scanned entry normalized to (key_bytes, value_bytes): "pair", or
\* "skip" for an unrecognized shape, or "raise" when the point lookup of a
\* bare key raises.
normalize(e, d, env) ==
    IF e.shape = "tuple" \/ e.shape = "object"
    THEN [kind |-> "pair", key_bytes |-> e.key, value_bytes |-> e.value]
    ELSE IF e.shape = "bytes"
    THEN IF env.getRaises = Some(e.key)
         THEN [kind |-> "raise", key_bytes |-> e.key, value_bytes |-> <<>>]
         ELSE LET resp == client_get(d, e.key)
              IN  [kind |-> "pair", key_bytes |-> e.key,
                   value_bytes |-> IF resp.kind = "value" THEN resp.data
                                   ELSE IF resp.kind = "payload" THEN resp.data
                                   ELSE <<>>]
    ELSE [kind |-> "skip", key_bytes |-> <<>>, value_bytes |-> <<>>]

\* The loop of get_all_transactions from entry i on; an exception leaves the
\* loop for the handler, which prints and falls through to "return result".
RECURSIVE all_loop(_, _, _, _, _)
all_loop(entries, i, result, d, env) ==
    IF i > Len(entries) THEN result
    ELSE LET n == normalize(entries[i], d, env)
         IN  IF n.kind = "raise" THEN result
             ELSE IF n.kind = "skip"
             THEN all_loop(entries, i + 1, result, d, env)
             ELSE all_loop(entries, i + 1,
                           DictSet(result, decode_utf8_replace(n.key_bytes),
                                   decode_value(n.value_bytes)), d, env)

\* get_all_transactions with the scan call outside the try block: a failing
\* scan is raised to the caller.
get_all_transactions_scan_unguarded(r, d, env) ==
    LET c == ensure_client(r, env)
    IN  IF c.raised \/ scan_raises(c.reader, env)
        THEN [reader |-> c.reader, raised |-> TRUE, result |-> <<>>]
        ELSE [reader |-> c.reader, raised |-> FALSE,
              result |-> all_loop(scan(d, <<>>, env.honours), 1, <<>>, d, env)]

\* ImmuDBReader.get_all_transactions.
get_all_transactions(r, d, env) ==
    LET c == ensure_client(r, env)
    IN  IF c.raised
        THEN [reader |-> c.reader, raised |-> TRUE, result |-> <<>>]
        ELSE [reader |-> c.reader, raised |-> FALSE,
              result |-> IF scan_raises(c.reader, env) THEN <<>>
                         ELSE all_loop(scan(d, <<>>, env.honours), 1, <<>>,
                                       d, env)]

\* The loop of get_by_prefix from entry i on.
RECURSIVE prefix_loop(_, _, _, _, _, _)
prefix_loop(entries, i, result, prefix, d, env) ==
    IF i > Len(entries) THEN result
    ELSE LET n == normalize(entries[i], d, env)
             key_str == decode_utf8_replace(n.key_bytes)
         IN  IF n.kind = "raise" THEN result
             ELSE IF n.kind = "skip" \/ ~startswith(key_str, prefix)
             THEN prefix_loop(entries, i + 1, result, prefix, d, env)
             ELSE prefix_loop(entries, i + 1,
                              DictSet(result, key_str,
                                      decode_value(n.value_bytes)),
                              prefix, d, env)

\* ImmuDBReader.get_by_prefix.
get_by_prefix(r, prefix, d, env) ==
    LET c == ensure_client(r, env)
        pfx == encode_utf8(prefix)
    IN  IF c.raised
        THEN [reader |-> c.reader, raised |-> TRUE, result |-> <<>>]
        ELSE [reader |-> c.reader, raised |-> FALSE,
              result |-> IF scan_raises(c.reader, env) THEN <<>>
                         ELSE prefix_loop(scan(d, pfx, env.honours), 1, <<>>,
                                          prefix, d, env)]

\* The loop of get_by_suffix from entry i on.
RECURSIVE suffix_loop(_, _, _, _, _, _)
suffix_loop(entries, i, result, sfx, d, env) ==
    IF i > Len(entries) THEN result
    ELSE LET n == normalize(entries[i], d, env)
         IN  IF n.kind = "raise" THEN result
             ELSE IF n.kind = "skip" \/ ~endswith(n.key_bytes, sfx)
             THEN suffix_loop(entries, i + 1, result, sfx, d, env)
             ELSE suffix_loop(entries, i + 1,
                              DictSet(result, decode_utf8_replace(n.key_bytes),
                                      decode_value(n.value_bytes)),
                              sfx, d, env)

\* ImmuDBReader.get_by_suffix.
get_by_suffix(r, suffix, d, env) ==
    LET c == ensure_client(r, env)
        sfx == encode_utf8(suffix)
    IN  IF c.raised
        THEN [reader |-> c.reader, raised |-> TRUE, result |-> <<>>]
        ELSE [reader |-> c.reader, raised |-> FALSE,
              result |-> IF scan_raises(c.reader, env) THEN <<>>
                         ELSE suffix_loop(scan(d, <<>>, env.honours), 1, <<>>,
                                          sfx, d, env)]

\* {"txId": None, "merkleRoot": None}.
NullSummary == [txId |-> None, merkleRoot |-> None]

\* currentState raises when the store fails it or the client may not ask.
state_raises(r, env) == env.stateRaises \/ ~ClientReady(r)

\* get_merkle_root without its try block: a failing currentState is raised.
reader_get_merkle_root_unguarded(r, d, env) ==
    LET c == ensure_client(r, env)
        state == currentState(d)
    IN  IF c.raised \/ state_raises(c.reader, env)
        THEN [reader |-> c.reader, raised |-> TRUE, summary |-> NullSummary]
        ELSE [reader |-> c.reader, raised |-> FALSE,
              summary |-> [txId |-> Some(state.txId),
                           merkleRoot |-> Some(hex(state.txHash))]]

\* ImmuDBReader.get_merkle_root.
reader_get_merkle_root(r, d, env) ==
    LET c == ensure_client(r, env)
        state == currentState(d)
    IN  IF c.raised
        THEN [reader |-> c.reader, raised |-> TRUE, summary |-> NullSummary]
        ELSE [reader |-> c.reader, raised |-> FALSE,
              summary |-> IF state_raises(c.reader, env) THEN NullSummary
                          ELSE [txId |-> Some(state.txId),
                                merkleRoot |-> Some(hex(state.txHash))]]

\* The module-level get_merkle_root(url, db_name): a new reader, connected,
\* then its get_merkle_root.
get_merkle_root(url, db_name, d, env) ==
    LET c == connect(ImmuDBReader(url, db_name), env)
    IN  IF c.raised
        THEN [reader |-> c.reader, raised |-> TRUE, summary |-> NullSummary]
        ELSE reader_get_merkle_root(c.reader, d, env)

\* ------------------------------------------------- the reader's operations

\* The endpoint and database name the dashboard offers: "h:3", "defaultdb".
DefaultUrl == <<104, 58, 51>>

DbName == "defaultdb"

\* The prefixes and suffixes asked for: "a" and U+FFFD.
Args == {<<97>>, <<REPLACEMENT>>}

\* The ways a connect can go: both steps succeed, login fails, or login
\* succeeds and useDatabase fails.
ConnectEnvs ==
    {CalmEnv, [CalmEnv EXCEPT !.loginOk = FALSE],
     [CalmEnv EXCEPT !.useDbOk = FALSE]}

\* The keys whose entry the scan hands back as a bare key.
BareKeys(d) ==
    {d.entries[i].key : i \in {j \in 1..Len(d.entries) :
                                  d.entries[j].shape = "bytes"}}

\* The ways a scanning read can go on reader r: its connect (made only
\* without a client) fails; or the scan raises, as it must for a client that
\* is not ready; or the scan answers, honouring the prefix or not (when one
\* is given), with at most one point lookup raising.
ScanEnvs(r, d, prefixed) ==
    (IF r.client = None THEN ConnectEnvs \ {CalmEnv} ELSE {})
    \cup {[CalmEnv EXCEPT !.scanRaises = TRUE]}
    \cup (IF r.client = None \/ ClientReady(r)
          THEN {[CalmEnv EXCEPT !.honours = h, !.getRaises = g] :
                   h \in (IF prefixed THEN BOOLEAN ELSE {TRUE}),
                   g \in {None} \cup {Some(k) : k \in BareKeys(d)}}
          ELSE {})

\* The ways a state read can go on reader r.
StateEnvs(r) ==
    (IF r.client = None THEN ConnectEnvs \ {CalmEnv} ELSE {})
    \cup {[CalmEnv EXCEPT !.stateRaises = TRUE]}
    \cup (IF r.client = None \/ ClientReady(r) THEN {CalmEnv} ELSE {})

\* The record of a call: the operation, its argument, what the store did,
\* whether the reader held a client before, and how the call ended.
Call(op, arg, env, r, raised, result, summary) ==
    [op |-> op, arg |-> arg, env |-> env, hadClient |-> r.client # None,
     status |-> IF raised THEN "raised" ELSE "returned",
     result |-> result, summary |-> summary]

NoCall ==
    Call("none", <<>>, CalmEnv, ImmuDBReader(DefaultUrl, DbName), FALSE,
         <<>>, NullSummary)

Init ==
    /\ db \in Stores
    /\ reader = ImmuDBReader(DefaultUrl, DbName)
    /\ last = NoCall
    /\ transactions = <<>>
    /\ stats = None
    /\ connected = FALSE

Connect ==
    \E env \in ConnectEnvs :
        LET c == connect(reader, env)
        IN  /\ reader' = c.reader
            /\ last' = Call("connect", reader.url, env, reader, c.raised,
                            <<>>, NullSummary)
            /\ UNCHANGED <<db, transactions, stats, connected>>

GetAllTransactions ==
    \E env \in ScanEnvs(reader, db, FALSE) :
        LET c == get_all_transactions(reader, db, env)
        IN  /\ reader' = c.reader
            /\ last' = Call("get_all_transactions", <<>>, env, reader,
                            c.raised, c.result, NullSummary)
            /\ UNCHANGED <<db, transactions, stats, connected>>

GetByPrefix ==
    \E prefix \in Args, env \in ScanEnvs(reader, db, TRUE) :
        LET c == get_by_prefix(reader, prefix, db, env)
        IN  /\ reader' = c.reader
            /\ last' = Call("get_by_prefix", prefix, env, reader, c.raised,
                            c.result, NullSummary)
            /\ UNCHANGED <<db, transactions, stats, connected>>

GetBySuffix ==
    \E suffix \in Args, env \in ScanEnvs(reader, db, FALSE) :
        LET c == get_by_suffix(reader, suffix, db, env)
        IN  /\ reader' = c.reader
            /\ last' = Call("get_by_suffix", suffix, env, reader, c.raised,
                            c.result, NullSummary)
            /\ UNCHANGED <<db, transactions, stats, connected>>

GetMerkleRoot ==
    \E env \in StateEnvs(reader) :
        LET c == reader_get_merkle_root(reader, db, env)
        IN  /\ reader' = c.reader
            /\ last' = Call("reader.get_merkle_root", reader.url, env,
                            reader, c.raised, <<>>, c.summary)
            /\ UNCHANGED <<db, transactions, stats, connected>>

\* The module-level helper, given the session's endpoint and database name,
\* works on a reader of its own.
HelperGetMerkleRoot ==
    \E env \in StateEnvs(ImmuDBReader(reader.url, reader.db_name)) :
        LET c == get_merkle_root(reader.url, reader.db_name, db, env)
        IN  /\ last' = Call("get_merkle_root", reader.url, env,
                            ImmuDBReader(reader.url, reader.db_name),
                            c.raised, <<>>, c.summary)
            /\ UNCHANGED <<db, reader, transactions, stats, connected>>

Next ==
    \/ Connect
    \/ GetAllTransactions
    \/ GetByPrefix
    \/ GetBySuffix

Spec == Init /\ [][Next]_vars

\* ------------------------------------------- connecting to any endpoint

\* The parts endpoint strings are made of: "h", "3", ":" and "://".
UrlParts == {<<104>>, <<51>>, <<58>>, <<58, 47, 47>>}

RECURSIVE Flatten(_)
Flatten(ss) == IF ss = <<>> THEN <<>> ELSE ss[1] \o Flatten(Tail(ss))

\* The endpoint strings handed to connect, well formed or not.
Urls ==
    {Flatten(ps) : ps \in UNION {[1..n -> UrlParts] : n \in 0..MaxUrlParts}}

\* The store behind the endpoint: one entry.
SmallStore ==
    [entries |-> <<[key |-> <<97>>, value |-> <<255>>, shape |-> "tuple"]>>,
     resp |-> "value"]

InitConnect ==
    /\ db = SmallStore
    /\ reader \in {ImmuDBReader(url, DbName) : url \in Urls}
    /\ last = NoCall
    /\ transactions = <<>>
    /\ stats = None
    /\ connected = FALSE

NextConnect ==
    \/ Connect
    \/ GetMerkleRoot
    \/ HelperGetMerkleRoot

SpecConnect == InitConnect /\ [][NextConnect]_vars

\* ------------------------------------------------------- the aggregator

\* sum(list).
RECURSIVE sum(_)
sum(xs) == IF xs = <<>> THEN 0 ELSE xs[1] + sum(Tail(xs))

\* a / b, Python's true division of two integers: the quotient, kept as the
\* fraction it is.  The literal 0 of the empty case is 0 / 1.
truediv(a, b) == [num |-> a, den |-> b]

\* The prefix loop running over range(1, min(5, len(key)) + 1): it counts one
\* prefix more, the whole key when the key is short.
RECURSIVE count_prefixes_through_key(_, _, _)
count_prefixes_through_key(prefixes, key, i) ==
    IF i >= (IF 5 < Len(key) THEN 5 ELSE Len(key)) + 1 THEN prefixes
    ELSE LET prefix == SubSeq(key, 1, i)
         IN  count_prefixes_through_key(
                 IF DictHas(prefixes, prefix)
                 THEN DictSet(prefixes, prefix, DictGet(prefixes, prefix) + 1)
                 ELSE DictSet(prefixes, prefix, 1),
                 key, i + 1)

\* for i in range(1, min(5, len(key))): count key[:i] in the prefixes dict.
RECURSIVE count_prefixes_of(_, _, _)
count_prefixes_of(prefixes, key, i) ==
    IF i >= (IF 5 < Len(key) THEN 5 ELSE Len(key)) THEN prefixes
    ELSE LET prefix == SubSeq(key, 1, i)
         IN  count_prefixes_of(
                 IF DictHas(prefixes, prefix)
                 THEN DictSet(prefixes, prefix, DictGet(prefixes, prefix) + 1)
                 ELSE DictSet(prefixes, prefix, 1),
                 key, i + 1)

\* for key in transactions.keys(): the loop above, from entry j on.
RECURSIVE count_prefixes(_, _, _)
count_prefixes(prefixes, t, j) ==
    IF j > Len(t) THEN prefixes
    ELSE count_prefixes(count_prefixes_of(prefixes, t[j][1], 1), t, j + 1)

\* sorted(items, key=lambda x: x[1], reverse=True): by count, largest first,
\* items of equal count in their original order.
RECURSIVE sorted_by_count_desc(_)
sorted_by_count_desc(items) ==
    IF items = <<>> THEN <<>>
    ELSE LET i == CHOOSE j \in 1..Len(items) :
                      /\ \A k \in 1..Len(items) : items[k][2] <= items[j][2]
                      /\ \A k \in 1..(j - 1) : items[k][2] < items[j][2]
         IN  <<items[i]>>
                 \o sorted_by_count_desc(SubSeq(items, 1, i - 1)
                                             \o Tail_n(items, i))

\* items[:5].
first5(items) == SubSeq(items, 1, IF Len(items) < 5 THEN Len(items) ELSE 5)

\* The "find largest value" loop comparing with >=: the last of the largest
\* values wins.
RECURSIVE largest_loop_last_wins(_, _, _)
largest_loop_last_wins(largest_value, t, i) ==
    IF i > Len(t) THEN largest_value
    ELSE LET value_size == Len(t[i][2])
         IN  largest_loop_last_wins(IF value_size >= largest_value.size
                                    THEN [key |-> t[i][1], size |-> value_size]
                                    ELSE largest_value,
                                    t, i + 1)

\* The "find largest value" loop from entry i on.
RECURSIVE largest_loop(_, _, _)
largest_loop(largest_value, t, i) ==
    IF i > Len(t) THEN largest_value
    ELSE LET value_size == Len(t[i][2])
         IN  largest_loop(IF value_size > largest_value.size
                          THEN [key |-> t[i][1], size |-> value_size]
                          ELSE largest_value,
                          t, i + 1)

\* key_lengths = [len(k) for k in transactions.keys()].
key_lengths(t) == [i \in 1..Len(t) |-> Len(t[i][1])]

\* value_lengths counting the bytes of each value's UTF-8 encoding.
value_lengths_in_bytes(t) ==
    [i \in 1..Len(t) |-> Len(encode_utf8(t[i][2]))]

\* value_lengths = [len(str(v)) for v in transactions.values()]; the values
\* are strings.
value_lengths(t) == [i \in 1..Len(t) |-> Len(t[i][2])]

\* get_transactions_stats.
get_transactions_stats(t) ==
    IF t = <<>>
    THEN [count |-> 0,
          avg_key_length |-> truediv(0, 1),
          avg_value_length |-> truediv(0, 1),
          largest_value |-> [key |-> <<>>, size |-> 0],
          common_prefixes |-> <<>>]
    ELSE [count |-> Len(t),
          avg_key_length |->
              truediv(sum(key_lengths(t)), Len(key_lengths(t))),
          avg_value_length |->
              truediv(sum(value_lengths(t)), Len(value_lengths(t))),
          largest_value |->
              largest_loop([key |-> <<>>, size |-> 0], t, 1),
          common_prefixes |->
              first5(sorted_by_count_desc(count_prefixes(<<>>, t, 1)))]

\* The text keys of the TransactionSets: "", "a", U+00E9, "ab", "abcdef",
\* "bcd" and "bce".
StatKeys ==
    {<<>>, <<97>>, <<233>>, <<97, 98>>, <<97, 98, 99, 100, 101, 102>>,
     <<98, 99, 100>>, <<98, 99, 101>>}

\* Their text values: "", "x", U+00E9 and "xy".
StatValues == {<<>>, <<120>>, <<233>>, <<120, 121>>}

\* The TransactionSets: up to MaxTxns pairs with distinct keys, in any order.
TransactionSets ==
    {t \in UNION {[1..n -> StatKeys \X StatValues] : n \in 0..MaxTxns} :
        \A i, j \in 1..Len(t) : i # j => t[i][1] # t[j][1]}

InitStats ==
    /\ db = SmallStore
    /\ reader = ImmuDBReader(DefaultUrl, DbName)
    /\ last = NoCall
    /\ transactions \in TransactionSets
    /\ stats = None
    /\ connected = FALSE

\* st.session_state.stats = get_transactions_stats(transactions).
ComputeStats ==
    /\ stats' = Some(get_transactions_stats(transactions))
    /\ UNCHANGED <<db, reader, last, transactions, connected>>

NextStats == ComputeStats

SpecStats == InitStats /\ [][NextStats]_vars

\* ------------------------------------------------------------ the dashboard

\* The read that read_transactions' filters select, on its connected
\* reader.  No filter is the empty string.
read_filtered(r, prefix, suffix, d, env) ==
    IF prefix # <<>> THEN get_by_prefix(r, prefix, d, env)
    ELSE IF suffix # <<>> THEN get_by_suffix(r, suffix, d, env)
    ELSE get_all_transactions(r, d, env)

\* read_transactions(url, db_name, prefix, suffix): a new reader, connected,
\* then the read the filters select.
read_transactions(url, db_name, prefix, suffix, d, env) ==
    LET c == connect(ImmuDBReader(url, db_name), env)
    IN  IF c.raised THEN [reader |-> c.reader, raised |-> TRUE, result |-> <<>>]
        ELSE read_filtered(c.reader, prefix, suffix, d, env)

\* The reader every handler starts from: the url and database name fields
\* keep their default text.
NewReader == ImmuDBReader(DefaultUrl, DbName)

\* The session state of a new session, over any store.
InitDashboard ==
    /\ db \in Stores
    /\ reader = None
    /\ last = NoCall
    /\ transactions = <<>>
    /\ stats = None
    /\ connected = FALSE

\* The "Connect to Database" button: connect a reader and keep it, then
\* fetch the transactions and compute their stats; on any exception the
\* session is marked not connected.
ConnectToDatabase ==
    \E env1 \in ConnectEnvs, env2 \in ScanEnvs(NewReader, db, FALSE) :
        \E c \in {connect(NewReader, env1)},
           rt \in {read_transactions(DefaultUrl, DbName, <<>>, <<>>, db,
                                     env2)} :
            IF c.raised
            THEN /\ connected' = FALSE
                 /\ last' = Call("Connect to Database", DefaultUrl, env1,
                                 NewReader, TRUE, <<>>, NullSummary)
                 /\ UNCHANGED <<db, reader, transactions, stats>>
            ELSE IF rt.raised
            THEN /\ reader' = Some(c.reader)
                 /\ connected' = FALSE
                 /\ last' = Call("Connect to Database", DefaultUrl, env2,
                                 NewReader, TRUE, <<>>, NullSummary)
                 /\ UNCHANGED <<db, transactions, stats>>
            ELSE /\ reader' = Some(c.reader)
                 /\ connected' = TRUE
                 /\ transactions' = rt.result
                 /\ stats' = Some(get_transactions_stats(rt.result))
                 /\ last' = Call("Connect to Database", DefaultUrl, env2,
                                 NewReader, FALSE, rt.result, NullSummary)
                 /\ UNCHANGED db

\* The "Refresh Stats" button, shown when connected and stats are stored.
RefreshStats ==
    /\ connected
    /\ stats # None
    /\ \E env \in ScanEnvs(NewReader, db, FALSE) :
        \E rt \in {read_transactions(DefaultUrl, DbName, <<>>, <<>>, db,
                                     env)} :
            /\ last' = Call("Refresh Stats", DefaultUrl, env, NewReader,
                            rt.raised, rt.result, NullSummary)
            /\ IF rt.raised
               THEN UNCHANGED <<transactions, stats>>
               ELSE /\ transactions' = rt.result
                    /\ stats' = Some(get_transactions_stats(rt.result))
            /\ UNCHANGED <<db, reader, connected>>

\* The "Fetch All Transactions" button, shown when connected.
FetchAllTransactions ==
    /\ connected
    /\ \E env \in ScanEnvs(NewReader, db, FALSE) :
        \E rt \in {read_transactions(DefaultUrl, DbName, <<>>, <<>>, db,
                                     env)} :
            /\ last' = Call("Fetch All Transactions", DefaultUrl, env,
                            NewReader, rt.raised, rt.result, NullSummary)
            /\ IF rt.raised
               THEN UNCHANGED transactions
               ELSE transactions' = rt.result
            /\ UNCHANGED <<db, reader, stats, connected>>

\* The "Search by Prefix" button, shown when connected: an empty prefix is
\* warned about, any other is searched for and the result displayed.
SearchByPrefix ==
    /\ connected
    /\ \E prefix \in Args \cup {<<>>}, env \in ScanEnvs(NewReader, db, TRUE) :
        \E rt \in {read_transactions(DefaultUrl, DbName, prefix, <<>>, db,
                                     env)} :
            /\ last' = IF prefix = <<>>
                       THEN Call("Search by Prefix", prefix, CalmEnv,
                                 NewReader, FALSE, <<>>, NullSummary)
                       ELSE Call("Search by Prefix", prefix, env, NewReader,
                                 rt.raised, rt.result, NullSummary)
            /\ UNCHANGED <<db, reader, transactions, stats, connected>>

\* The "Search by Suffix" button, shown when connected.
SearchBySuffix ==
    /\ connected
    /\ \E suffix \in Args \cup {<<>>}, env \in ScanEnvs(NewReader, db, FALSE) :
        \E rt \in {read_transactions(DefaultUrl, DbName, <<>>, suffix, db,
                                     env)} :
            /\ last' = IF suffix = <<>>
                       THEN Call("Search by Suffix", suffix, CalmEnv,
                                 NewReader, FALSE, <<>>, NullSummary)
                       ELSE Call("Search by Suffix", suffix, env, NewReader,
                                 rt.raised, rt.result, NullSummary)
            /\ UNCHANGED <<db, reader, transactions, stats, connected>>

NextDashboard ==
    \/ ConnectToDatabase
    \/ RefreshStats
    \/ FetchAllTransactions
    \/ SearchByPrefix
    \/ SearchBySuffix

SpecDashboard == InitDashboard /\ [][NextDashboard]_vars

\* ------------------------------------------------- claims about the scans

\* A scanning read that met no fault: it returned, its scan answered and no
\* point lookup raised.
CleanScan(c) ==
    /\ c.status = "returned"
    /\ ~c.env.scanRaises
    /\ c.env.getRaises = None

\* Every pair of dict a is a pair of dict b.
DictSubset(a, b) ==
    \A i \in 1..Len(a) : DictHas(b, a[i][1]) /\ DictGet(b, a[i][1]) = a[i][2]

IsScanOp(op) ==
    op \in {"get_all_transactions", "get_by_prefix", "get_by_suffix"}

\* The entries of the store that come in a recognized shape.
Recognized(d) ==
    {d.entries[i] : i \in {j \in 1..Len(d.entries) :
                              d.entries[j].shape # "other"}}

\* The value bytes the reader gets for a recognized entry: the entry's own,
\* or what the point lookup's response carries.
FetchedValue(d, e) ==
    IF e.shape = "bytes" /\ d.resp = "neither" THEN <<>> ELSE e.value

\* C1: after get_by_prefix(p) on a connected reader with no fault, the result
\* is a subset, as decoded key -> decoded value pairs, of what
\* get_all_transactions gives on the same reader and store, and each of its
\* keys starts with p, whether the scan honoured the prefix or not.
C1_PrefixSubsetOfAll ==
    (last.op = "get_by_prefix" /\ CleanScan(last)) =>
        /\ DictSubset(last.result,
                      get_all_transactions(reader, db, CalmEnv).result)
        /\ \A k \in DictKeys(last.result) : startswith(k, last.arg)

\* C2: after get_by_suffix(s) on a connected reader with no fault, the result
\* is a subset, as decoded key -> decoded value pairs, of what
\* get_all_transactions gives on the same reader and store, and each of its
\* pairs comes from an entry whose raw key ends with the UTF-8 bytes of s.
C2_SuffixSubsetOfAll ==
    (last.op = "get_by_suffix" /\ CleanScan(last)) =>
        /\ DictSubset(last.result,
                      get_all_transactions(reader, db, CalmEnv).result)
        /\ \A i \in 1..Len(last.result) :
              \E e \in Recognized(db) :
                  /\ endswith(e.key, encode_utf8(last.arg))
                  /\ decode_utf8_replace(e.key) = last.result[i][1]
                  /\ decode_value(FetchedValue(db, e)) = last.result[i][2]

\* The recognized entries a scanning read is to deliver: those the scan hands
\* back that pass the read's own filter.
Wanted(c, d) ==
    {e \in Recognized(d) :
        /\ c.op = "get_by_prefix" =>
              /\ c.env.honours => startswith(e.key, encode_utf8(c.arg))
              /\ startswith(decode_utf8_replace(e.key), c.arg)
        /\ c.op = "get_by_suffix" => endswith(e.key, encode_utf8(c.arg))}

\* C3: when the point lookup of one entry raises during a scanning read, only
\* that entry is skipped: the key of every other recognized entry the read is
\* to deliver, those after the faulty one included, is in the result.
C3_EntryFaultSkipsOnlyThatEntry ==
    (/\ IsScanOp(last.op)
     /\ last.status = "returned"
     /\ ~last.env.scanRaises
     /\ last.env.getRaises # None) =>
        \A e \in Wanted(last, db) :
            e.key # last.env.getRaises[1] =>
                DictHas(last.result, decode_utf8_replace(e.key))

\* C4: on a reader that already holds a client, a scanning read whose scan
\* call fails returns the empty mapping and does not raise.
C4_ScanFailureGivesEmpty ==
    (IsScanOp(last.op) /\ last.hadClient /\ last.env.scanRaises) =>
        /\ last.status = "returned"
        /\ last.result = <<>>

\* C4's case: a scan failed on a reader holding a client, over a store
\* that has entries to give.
C4_Witness ==
    /\ last.op = "get_by_suffix"
    /\ last.hadClient
    /\ ClientReady(reader)
    /\ last.env.scanRaises
    /\ last.status = "returned"
    /\ Recognized(db) # {}

\* A byte string is valid UTF-8 exactly when decoding it replaces nothing, so
\* that encoding the text gives the bytes back.
valid_utf8(bs) == encode_utf8(decode_utf8_replace(bs)) = bs

\* The sextet of a base64 character, -1 for a character outside the alphabet.
b64val(c) ==
    IF c >= 65 /\ c <= 90 THEN c - 65
    ELSE IF c >= 97 /\ c <= 122 THEN c - 71
    ELSE IF c >= 48 /\ c <= 57 THEN c + 4
    ELSE IF c = 43 THEN 62
    ELSE IF c = 47 THEN 63
    ELSE -1

\* A string base64 can decode: groups of four alphabet characters, the last
\* group ending in at most two "=".
b64_wellformed(s) ==
    /\ Len(s) % 4 = 0
    /\ \A i \in 1..Len(s) :
          \/ b64val(s[i]) >= 0
          \/ /\ s[i] = 61
             /\ i >= Len(s) - 1
             /\ s[Len(s)] = 61

RECURSIVE b64groups(_)
b64groups(s) ==
    IF s = <<>> THEN <<>>
    ELSE LET v(i) == IF s[i] = 61 THEN 0 ELSE b64val(s[i])
             b1 == v(1) * 4 + (v(2) \div 16)
             b2 == (v(2) % 16) * 16 + (v(3) \div 4)
             b3 == (v(3) % 4) * 64 + v(4)
             bytes == IF s[3] = 61 THEN <<b1>>
                      ELSE IF s[4] = 61 THEN <<b1, b2>>
                      ELSE <<b1, b2, b3>>
         IN  bytes \o b64groups(Tail_n(s, 4))

\* base64-decoding a string: the bytes, or None when it is no base64.
b64decode(s) == IF b64_wellformed(s) THEN Some(b64groups(s)) ELSE None

\* No other entry of the store decodes to the text key of entry e.
KeyTextUnique(d, e) ==
    \A i \in 1..Len(d.entries) :
        d.entries[i].key # e.key =>
            decode_utf8_replace(d.entries[i].key) # decode_utf8_replace(e.key)

\* C6: the string a scanning read returns for a value is the value's text when
\* its bytes are valid UTF-8, and otherwise a base64 string that decodes to
\* exactly those bytes.
C6_ValueTextOrBase64 ==
    (IsScanOp(last.op) /\ CleanScan(last)) =>
        \A e \in Wanted(last, db) :
            KeyTextUnique(db, e) =>
                LET v == FetchedValue(db, e)
                    str == DictGet(last.result, decode_utf8_replace(e.key))
                IN  IF valid_utf8(v)
                    THEN str = decode_utf8_replace(v)
                    ELSE b64decode(str) = Some(v)

\* C8: get_all_transactions, when its scan answers, returns the text key of
\* every entry that comes in a recognized shape (but for a bare key whose own
\* point lookup raised), and every pair it returns is the decoded key and
\* decoded value of such an entry.
C8_AllReturnsEveryRecognizedEntry ==
    (/\ last.op = "get_all_transactions"
     /\ last.status = "returned"
     /\ ~last.env.scanRaises) =>
        /\ \A e \in Recognized(db) :
              Some(e.key) # last.env.getRaises =>
                  DictHas(last.result, decode_utf8_replace(e.key))
        /\ \A i \in 1..Len(last.result) :
              \E e \in Recognized(db) :
                  /\ decode_utf8_replace(e.key) = last.result[i][1]
                  /\ decode_value(FetchedValue(db, e)) = last.result[i][2]

\* ------------------------------------- claims about connect and the state

IsStateOp(op) == op \in {"reader.get_merkle_root", "get_merkle_root"}

\* The store could not be reached at some step of the call: login,
\* useDatabase or currentState failed.
Unreachable(env) == ~env.loginOk \/ ~env.useDbOk \/ env.stateRaises

\* C5 as stated: whenever the store fails a step of a state read, the reader
\* method and the module-level helper both return the null summary and do
\* not raise.
C5_StateReadNeverRaises ==
    (IsStateOp(last.op) /\ Unreachable(last.env)) =>
        /\ last.status = "returned"
        /\ last.summary = NullSummary

\* C5 as amended: a state read returns the null summary, without raising,
\* when currentState fails on a client the reader holds: always so for the
\* reader method called with a client, and whenever either function returns.
\* Both raise exactly when the connect they run first (the method without a
\* client, the helper always) raises.
C5_StateFailureNullUnlessConnectRaises ==
    IsStateOp(last.op) =>
        /\ (last.op = "reader.get_merkle_root" /\ last.hadClient) =>
              last.status = "returned"
        /\ (last.status = "returned" /\ last.env.stateRaises) =>
              last.summary = NullSummary
        /\ last.status = "raised" =>
              /\ ~last.hadClient
              /\ connect(ImmuDBReader(last.arg, DbName), last.env).raised
              /\ last.summary = NullSummary
        /\ (~last.hadClient
            /\ connect(ImmuDBReader(last.arg, DbName), last.env).raised) =>
              last.status = "raised"

\* C5's case: currentState failed on a reader holding a ready client, and the
\* method returned the null summary.
C5_Witness ==
    /\ last.op = "reader.get_merkle_root"
    /\ last.hadClient
    /\ ClientReady(reader)
    /\ last.env.stateRaises
    /\ last.status = "returned"
    /\ last.summary = NullSummary

IsDigit(c) == c >= 48 /\ c <= 57

\* A scheme or host name: not empty, with no ":" and no "/".
IsName(s) == s # <<>> /\ \A i \in 1..Len(s) : s[i] # 58 /\ s[i] # 47

IsDigits(s) == s # <<>> /\ \A i \in 1..Len(s) : IsDigit(s[i])

\* The number a run of decimal digits writes, read from the left.
RECURSIVE DecimalFrom(_, _)
DecimalFrom(acc, s) ==
    IF s = <<>> THEN acc ELSE DecimalFrom(acc * 10 + (s[1] - 48), Tail(s))

\* The ways to read url as [scheme://]host[:port]: the scheme, host and port
\* (None for a part left out) of each.
Readings(url) ==
    {x \in {[scheme |-> IF a = 0 THEN None ELSE Some(SubSeq(url, 1, a)),
             host |-> SubSeq(url, IF a = 0 THEN 1 ELSE a + 4, b),
             port |-> IF b = Len(url) THEN None
                      ELSE Some(SubSeq(url, b + 2, Len(url)))]
                : a \in 0..Len(url), b \in 1..Len(url)} :
        /\ url = (IF x.scheme = None THEN <<>> ELSE x.scheme[1] \o SchemeSep)
                   \o x.host
                   \o (IF x.port = None THEN <<>> ELSE PortSep \o x.port[1])
        /\ x.scheme # None => IsName(x.scheme[1])
        /\ IsName(x.host)
        /\ x.port # None => IsDigits(x.port[1])}

\* The text "host:port" a reading leaves once the scheme is stripped.
HostPort(x) ==
    x.host \o (IF x.port = None THEN <<>> ELSE PortSep \o x.port[1])

\* C7: connect on an endpoint of the form [scheme://]host[:port] strips the
\* scheme, creates the client for that host and for the given port, or 3322
\* when none is given, and raises exactly when login or the database
\* selection fails.
C7_ConnectParsesEndpoint ==
    last.op = "connect" =>
        \A x \in Readings(last.arg) :
            /\ reader.url = HostPort(x)
            /\ reader.client # None
            /\ reader.client[1].host = x.host
            /\ reader.client[1].port =
                  (IF x.port = None THEN 3322 ELSE DecimalFrom(0, x.port[1]))
            /\ last.status = "raised" <=>
                  (~last.env.loginOk \/ ~last.env.useDbOk)
            /\ ClientReady(reader) <=> last.status = "returned"

\* C7's case: connect returned on "h://h:3".
C7_Witness ==
    /\ last.op = "connect"
    /\ last.arg = <<104, 58, 47, 47, 104, 58, 51>>
    /\ last.status = "returned"
    /\ reader.client[1].host = <<104>>
    /\ reader.client[1].port = 3

\* C7's other case: connect returned on "h3", an endpoint with no port.
C7_WitnessDefaultPort ==
    /\ last.op = "connect"
    /\ last.arg = <<104, 51>>
    /\ last.status = "returned"
    /\ reader.client[1].port = DefaultPort

\* ------------------------------------------- claims about the aggregator

\* The sum of f over a set of indices.
RECURSIVE SumOver(_, _)
SumOver(I, f) ==
    IF I = {} THEN 0
    ELSE LET i == CHOOSE j \in I : TRUE
         IN  f[i] + SumOver(I \ {i}, f)

\* The fraction q is the quotient a / b.
IsQuotient(q, a, b) == q.den # 0 /\ q.num * b = a * q.den

\* C9: count is the number of entries and each average is the sum of the
\* character lengths of the keys (values) divided by count; for the empty
\* TransactionSet count and both averages are 0, with nothing divided by 0.
C9_CountAndAverages ==
    stats # None =>
        LET st == stats[1]
            n == Len(transactions)
            keyChars == SumOver(1..n, [i \in 1..n |-> Len(transactions[i][1])])
            valueChars == SumOver(1..n, [i \in 1..n |-> Len(transactions[i][2])])
        IN  /\ st.count = n
            /\ st.avg_key_length.den # 0
            /\ st.avg_value_length.den # 0
            /\ n > 0 => /\ IsQuotient(st.avg_key_length, keyChars, n)
                        /\ IsQuotient(st.avg_value_length, valueChars, n)
            /\ n = 0 => /\ st.avg_key_length.num = 0
                        /\ st.avg_value_length.num = 0

\* C9's case: statistics of three entries, one of them with a value of one
\* character that takes two bytes.
C9_Witness ==
    /\ stats # None
    /\ Len(transactions) = 3
    /\ \E i \in 1..3 : transactions[i][2] = <<233>>
    /\ stats[1].avg_value_length.num = 3

\* C9's other case: statistics of the empty TransactionSet.
C9_WitnessEmpty == stats # None /\ transactions = <<>> /\ stats[1].count = 0

\* C10: largest_value names the first entry, in iteration order, whose value
\* is as long as the longest value, with that length for size; it is
\* {key: "", size: 0} for the empty set and when every value is empty.
C10_LargestIsFirstMaximum ==
    stats # None =>
        LET lv == stats[1].largest_value
            n == Len(transactions)
            IsMax(i) == \A j \in 1..n :
                            Len(transactions[j][2]) <= Len(transactions[i][2])
        IN  IF n = 0 \/ \A j \in 1..n : transactions[j][2] = <<>>
            THEN lv = [key |-> <<>>, size |-> 0]
            ELSE \E i \in 1..n :
                    /\ IsMax(i)
                    /\ \A j \in 1..(i - 1) : ~IsMax(j)
                    /\ lv = [key |-> transactions[i][1],
                             size |-> Len(transactions[i][2])]

\* C10's case: two values tie for the longest and the earlier one is named.
C10_Witness ==
    /\ stats # None
    /\ Len(transactions) = 3
    /\ Len(transactions[1][2]) = 0
    /\ Len(transactions[2][2]) = 1
    /\ Len(transactions[3][2]) = 1
    /\ stats[1].largest_value.key = transactions[2][1]

\* The candidates of a key: its prefixes of length 1 through
\* min(4, key length - 1).
Candidates(key) ==
    {SubSeq(key, 1, n) :
        n \in 1..(IF 4 < Len(key) - 1 THEN 4 ELSE Len(key) - 1)}

\* The number of keys of the TransactionSet t having the candidate p.
Frequency(t, p) ==
    Cardinality({j \in 1..Len(t) : p \in Candidates(t[j][1])})

\* When the candidate p of t is first discovered: the keys are visited in
\* iteration order and the candidates of one key from the shortest on.
Discovery(t, p) ==
    LET first == CHOOSE j \in 1..Len(t) :
                     /\ p \in Candidates(t[j][1])
                     /\ \A k \in 1..(j - 1) : p \notin Candidates(t[k][1])
    IN  <<first, Len(p)>>

\* Discovery instant a is before discovery instant b.
DiscoveredBefore(a, b) == a[1] < b[1] \/ (a[1] = b[1] /\ a[2] < b[2])

\* C11: common_prefixes lists at most 5 (prefix, frequency) pairs; the
\* candidates of a key are its prefixes of length 1 through
\* min(4, key length - 1); each frequency is the number of keys having the
\* candidate; the list is sorted by frequency descending, ties in
\* first-discovery order; no omitted candidate has a higher frequency than a
\* listed one; a key of length 0 or 1 contributes no candidate and the empty
\* set yields the empty list.
C11_CommonPrefixes ==
    stats # None =>
        LET t == transactions
            cp == stats[1].common_prefixes
            all == UNION {Candidates(t[j][1]) : j \in 1..Len(t)}
            listed == {cp[i][1] : i \in 1..Len(cp)}
        IN  /\ Len(cp) <= 5
            /\ Len(cp) < 5 => listed = all
            /\ \A i \in 1..Len(cp) :
                   /\ cp[i][1] \in all
                   /\ cp[i][2] = Frequency(t, cp[i][1])
            /\ \A i, j \in 1..Len(cp) :
                   i < j =>
                       /\ cp[i][1] # cp[j][1]
                       /\ cp[i][2] >= cp[j][2]
                       /\ cp[i][2] = cp[j][2] =>
                              DiscoveredBefore(Discovery(t, cp[i][1]),
                                               Discovery(t, cp[j][1]))
            /\ \A p \in all \ listed :
                   \A i \in 1..Len(cp) : Frequency(t, p) <= cp[i][2]
            /\ (\A j \in 1..Len(t) : Len(t[j][1]) <= 1) => cp = <<>>

\* C11's case: the keys "abcdef", "bcd" and "bce" have six candidates; "b"
\* and "bc", discovered fifth and sixth, are counted twice and listed first,
\* and "abcd" is omitted.
C11_Witness ==
    /\ stats # None
    /\ Len(transactions) = 3
    /\ transactions[1][1] = <<97, 98, 99, 100, 101, 102>>
    /\ transactions[2][1] = <<98, 99, 100>>
    /\ transactions[3][1] = <<98, 99, 101>>
    /\ stats[1].common_prefixes =
           << <<(<<98>>), 2>>, <<(<<98, 99>>), 2>>, <<(<<97>>), 1>>,
              <<(<<97, 98>>), 1>>, <<(<<97, 98, 99>>), 1>> >>

\* C11's other case: keys of length 0 and 1 only, and no candidate.
C11_WitnessShortKeys ==
    /\ stats # None
    /\ Len(transactions) = 2
    /\ transactions[1][1] = <<>>
    /\ transactions[2][1] = <<233>>
    /\ stats[1].common_prefixes = <<>>

\* The buttons that fetch the full transaction set.
FullFetches ==
    {"Connect to Database", "Refresh Stats", "Fetch All Transactions"}

\* C12: following every action that fetches the full transaction set
\* (Connect to Database, Refresh Stats, Fetch All Transactions) the session's
\* stats are get_transactions_stats of the session's transactions: the stored
\* statistics never describe a TransactionSet older than the stored one.
C12_StatsDescribeStoredTransactions ==
    (last.op \in FullFetches /\ last.status = "returned") =>
        stats = Some(get_transactions_stats(transactions))

\* C13: after any sequence of connect and read operations on one reader,
\* reader.client is set only if the most recent connect completed both login
\* and database selection: a connect that fails leaves the reader without a
\* client, so that the next read connects again.
C13_ClientOnlyAfterCompleteConnect ==
    reader.client # None => ClientReady(reader)

====
